---- MODULE Spec2Model ----
(***************************************************************************)
(* str_view_template<CharT> (src/str_view.hpp): a view over code units     *)
(* with a lazily resolved length cache (m_Length) and a lazily             *)
(* materialised null-terminated copy (m_NullTerminatedPtr).                *)
(*                                                                         *)
(* The model is of the build with assertions enabled: a failed assert      *)
(* aborts the program (failed # "none", no further step).  Reads through a *)
(* null pointer and a second delete[] of a buffer abort the same way.      *)
(* Atomic loads, stores, exchanges and the compare-exchange of the two     *)
(* caches are the interleaving points of c_str() and length(); every other *)
(* member function is one step.                                            *)
(***************************************************************************)
EXTENDS Integers, Sequences, FiniteSets, TLC

(* ---- bounds of the model ---- *)
NViews == 2
NThreads == 2
MaxAlloc == 2
MaxOff == 2
MaxReq == 2

(* ---- program constants and the address space ---- *)
SIZE_MAX == 255
NULL == 0
NullCharAddr == 8
BufBase == 16
HeapBase == 32

\* The callers' immutable code units: the array "ab\0a\0" (1 = 'a', 2 = 'b',
\* 0 = the terminator).  Addresses BufBase .. BufBase + MemLen - 1.
Mem == <<1, 2, 0, 1, 0>>
MemLen == Len(Mem)
BufAddrs == BufBase .. (BufBase + MemLen - 1)
MemAt(a) == Mem[a - BufBase + 1]

\* The managed strings (std::basic_string objects) of the callers: "ab" and
\* "a", each followed by the terminator that c_str() guarantees.
Strings == { [start |-> BufBase, len |-> 2], [start |-> BufBase + 3, len |-> 1] }

\* The pointers the callers construct views from: the string "ab" and the
\* empty string at its terminator.
SrcPtrs == {BufBase, BufBase + 2}

Views == 1 .. NViews
Threads == 1 .. NThreads
Offsets == 0 .. MaxOff
ReqLengths == (0 .. MaxReq) \cup {SIZE_MAX}

Min(a, b) == IF a < b THEN a ELSE b

VARIABLES
    views,   \* views[x]: the object in slot x: live, m_Length, m_Begin, m_NullTerminatedPtr
    heap,    \* heap[a]: the array new CharT[] returned at address a: its units, and whether it is still allocated
    th,      \* th[t]: the c_str() or length() call thread t is executing: position, locals, result
    last,    \* the operation the last step completed as a whole, its arguments and result
    failed   \* "none", or the assertion / fault that aborted the program

vars == <<views, heap, th, last, failed>>

(* ---- the heap ---- *)
\* The addresses new CharT[] can return (all even); a deleted array's address
\* can be returned again.
HeapAddr(k) == HeapBase + 2 * k
HeapAddrs == {HeapAddr(k) : k \in 1 .. MaxAlloc}
NoArray == [data |-> <<>>, live |-> FALSE]
IsLive(a) == a \in HeapAddrs /\ heap[a].live

\* delete[] (CharT*)a
Freed(h, a) == [h EXCEPT ![a] = NoArray]

\* p[i] for a pointer p the program returned; Poison is what a read outside
\* every array yields.
Poison == 0 - 1
At(p, i) ==
    IF p \in BufAddrs /\ p + i \in BufAddrs THEN MemAt(p + i)
    ELSE IF p = NullCharAddr /\ i = 0 THEN 0
    ELSE IF p \in HeapAddrs /\ i + 1 \in 1 .. Len(heap[p].data) THEN heap[p].data[i + 1]
    ELSE Poison

(* ---- tstrlen ---- *)
RECURSIVE ScanFrom(_, _)
ScanFrom(b, n) == IF MemAt(b + n) = 0 THEN n ELSE ScanFrom(b, n + 1)

Strlen(b) == ScanFrom(b, 0)

\* The units [b, b + n) of the callers' array.
Units(b, n) == [i \in 1 .. n |-> MemAt(b + i - 1)]

(* ---- objects ---- *)
Dead == [live |-> FALSE, len |-> 0, begin |-> NULL, nt |-> 0]
Obj(len, begin, nt) == [live |-> TRUE, len |-> len, begin |-> begin, nt |-> nt]

\* str_view_template()
ViewDefault == Obj(0, NULL, 0)

\* str_view_template(const CharT* sz)
ViewSz(sz) == Obj(IF sz # NULL THEN SIZE_MAX ELSE 0, sz, IF sz # NULL THEN 1 ELSE 0)

\* str_view_template(const CharT* str, size_t length)
ViewStrLen(str, length) == Obj(length, IF length # 0 THEN str ELSE NULL, 0)

\* str_view_template(const CharT* str, size_t length, StillNullTerminated)
ViewStillNT(str, length) ==
    IF length # 0 THEN Obj(length, str, 1) ELSE Obj(length, NULL, 0)

\* The assert that ends that constructor reads m_Begin[m_Length].
StillNTFault(str, length) ==
    IF length = 0 THEN "null_deref_169"
    ELSE IF MemAt(str + length) # 0 THEN "assert_169"
    ELSE "none"

\* str_view_template(const StringT& str, size_t offset, size_t length)
ViewString(s, offset, length) ==
    LET n == Min(length, s.len - offset) IN
    IF n = 0 THEN Obj(0, NULL, 0)
    ELSE IF n = s.len - offset THEN Obj(n, s.start + offset, 1)
    ELSE Obj(n, s.start + offset, 0)

\* (a copy that takes the source's m_NullTerminatedPtr as it is)
CopyTerminationShared(nt) == nt

\* m_NullTerminatedPtr of a copy: src.m_NullTerminatedPtr == 1 ? 1 : 0
CopyTermination(nt) == IF nt = 1 THEN 1 ELSE 0

\* The value length() returns on object o (and leaves in o.m_Length).
Resolved(o) == IF o.len = SIZE_MAX THEN Strlen(o.begin) ELSE o.len

\* The assert of length() and empty() on an object of unknown length.
UnknownFault(o, name) == IF o.len = SIZE_MAX /\ o.nt # 1 THEN name ELSE "none"

\* (an empty() that does not peek the first unit of an unknown-length view)
IsEmptyNoPeek(o) ==
    IF o.len = SIZE_MAX THEN o.begin = NULL ELSE o.len = 0

\* (an empty() that looks at the cached m_Length only)
IsEmptyCachedOnly(o) == o.len = 0

\* empty()
IsEmpty(o) ==
    IF o.len = SIZE_MAX THEN (o.begin = NULL \/ MemAt(o.begin) = 0) ELSE o.len = 0

Idle == [pc |-> "idle", op |-> "none", self |-> 0, len |-> 0, copy |-> 0, ret |-> 0]

NoOp == [op |-> "none", dst |-> 0, src |-> 0, pre |-> Dead,
         off |-> 0, req |-> 0, ret |-> 0, out |-> <<>>]

\* The record of a completed operation: on or from object s (fields o before
\* it), constructing, assigning to or comparing with object d.
Did(op, d, s, o) == [NoOp EXCEPT !.op = op, !.dst = d, !.src = s, !.pre = o]

\* Assignment and destruction are not to run while a call is in progress on
\* the object.
Quiet(x) == \A t \in Threads : th[t].pc = "idle" \/ th[t].self # x

\* Objects are interchangeable, and so are threads: a new object takes the
\* first free slot, a new call the first idle thread.
FreeSlot(d) == ~views[d].live /\ \A e \in Views : e < d => views[e].live
IdleThread(t) == th[t].pc = "idle" /\ \A u \in Threads : u < t => th[u].pc # "idle"

Init ==
    /\ views = [x \in Views |-> Dead]
    /\ heap = [a \in HeapAddrs |-> NoArray]
    /\ th = [t \in Threads |-> Idle]
    /\ last = NoOp
    /\ failed = "none"

\* The program runs, and the operation completed last has been taken note of.
Ready == failed = "none" /\ last.op = "none"

Fail(f) == failed' = f /\ UNCHANGED <<views, heap, th, last>>

Construct(d, o, op) ==
    /\ views' = [views EXCEPT ![d] = o]
    /\ last' = Did(op, d, 0, Dead)
    /\ UNCHANGED <<heap, th, failed>>

(* ---- constructors ---- *)
CtorDefault(d) ==
    /\ Ready /\ FreeSlot(d)
    /\ Construct(d, ViewDefault, "ctor_default")

CtorSz(d, sz) ==
    /\ Ready /\ FreeSlot(d)
    /\ Construct(d, ViewSz(sz), "ctor_sz")

CtorStrLen(d, str, length) ==
    /\ Ready /\ FreeSlot(d)
    /\ length = SIZE_MAX \/ str + length <= BufBase + MemLen
    /\ Construct(d, ViewStrLen(str, length), "ctor_len")

\* The read through the null m_Begin is undefined: the program aborts there,
\* or the read yields the terminator and the constructor returns.
StillNTReturns(str, length) == StillNTFault(str, length) \in {"none", "null_deref_169"}

CtorStillNT(d, str, length) ==
    /\ Ready /\ FreeSlot(d)
    /\ str + length < BufBase + MemLen
    /\ \/ StillNTFault(str, length) # "none" /\ Fail(StillNTFault(str, length))
       \/ StillNTReturns(str, length) /\ Construct(d, ViewStillNT(str, length), "ctor_still")

CtorString(d, s, offset, length) ==
    /\ Ready /\ FreeSlot(d)
    /\ IF offset > s.len
       THEN Fail("assert_178")
       ELSE Construct(d, ViewString(s, offset, length), "ctor_string")

\* On the path that keeps the length unknown the new m_Begin is src.m_Begin +
\* offset, unchecked: the callers keep it inside their array.
LazyInRange(o, offset, length) ==
    (o.len = SIZE_MAX /\ length = SIZE_MAX /\ o.nt = 1) => o.begin + offset < BufBase + MemLen

\* str_view_template(const str_view_template& src, size_t offset, size_t length):
\* the assertion that fails, if one does.
SliceFault(src, offset, length) ==
    IF src.len = SIZE_MAX /\ length = SIZE_MAX
    THEN (IF src.nt # 1 THEN "assert_203" ELSE "none")
    ELSE IF UnknownFault(src, "assert_274") # "none" THEN "assert_274"
    ELSE IF offset > Resolved(src) THEN "assert_209"
    ELSE "none"

\* (a slice that does not clamp the requested length)
SliceOfUnclamped(src, offset, length) ==
    Obj(length, src.begin + offset, IF src.nt = 1 THEN 1 ELSE 0)

\* The object that constructor builds.
SliceOf(src, offset, length) ==
    IF src.len = SIZE_MAX /\ length = SIZE_MAX
    THEN Obj(SIZE_MAX, src.begin + offset, 1)
    ELSE LET srcLen == Resolved(src)
             n == Min(length, srcLen - offset)
         IN  IF n = 0 THEN Obj(0, NULL, 0)
             ELSE Obj(n, src.begin + offset,
                      IF src.nt = 1 /\ n = srcLen - offset THEN 1 ELSE 0)

\* What a call that resolves the length leaves in the object it is called on.
AfterLength(o) == [o EXCEPT !.len = Resolved(o)]

\* (a slice that calls src.length() on both paths)
SliceSourceResolved(src, length) == AfterLength(src)

\* The source as slicing leaves it (length() is called on the second path only).
SliceSource(src, length) ==
    IF src.len = SIZE_MAX /\ length = SIZE_MAX THEN src ELSE AfterLength(src)

CtorCopy(d, s, offset, length) ==
    /\ Ready /\ FreeSlot(d) /\ views[s].live
    /\ LazyInRange(views[s], offset, length)
    /\ IF SliceFault(views[s], offset, length) # "none"
       THEN Fail(SliceFault(views[s], offset, length))
       ELSE /\ views' = [views EXCEPT ![s] = SliceSource(views[s], length),
                                      ![d] = SliceOf(views[s], offset, length)]
            /\ last' = [Did("ctor_copy", d, s, views[s]) EXCEPT !.off = offset, !.req = length]
            /\ UNCHANGED <<heap, th, failed>>

\* The moved-to object: m_Length and m_NullTerminatedPtr exchanged out of src.
MoveTaken(src) == Obj(src.len, src.begin, src.nt)

\* (a move without src.m_Begin = nullptr)
MovedFromKeepsBegin(src) == Obj(0, src.begin, 0)

\* The source after the exchanges and src.m_Begin = nullptr.
MovedFrom(src) == Obj(0, NULL, 0)

\* str_view_template(str_view_template&& src)
CtorMove(d, s) ==
    /\ Ready /\ FreeSlot(d) /\ views[s].live /\ Quiet(s)
    /\ views' = [views EXCEPT ![s] = MovedFrom(views[s]), ![d] = MoveTaken(views[s])]
    /\ last' = Did("ctor_move", d, s, views[s])
    /\ UNCHANGED <<heap, th, failed>>

\* (a destructor or assignment without the delete[])
DeleteOwnedSkipped(h, v) == h

\* if(v > 1) delete[] (CharT*)v;
DeleteOwned(h, v) == IF v > 1 THEN Freed(h, v) ELSE h

DeleteFault(v) == IF v > 1 /\ ~IsLive(v) THEN "double_free" ELSE "none"

\* ~str_view_template()
Dtor(d) ==
    /\ Ready /\ views[d].live /\ Quiet(d)
    /\ IF DeleteFault(views[d].nt) # "none"
       THEN Fail(DeleteFault(views[d].nt))
       ELSE /\ heap' = DeleteOwned(heap, views[d].nt)
            /\ views' = [views EXCEPT ![d] = Dead]
            /\ last' = Did("dtor", d, 0, views[d])
            /\ UNCHANGED <<th, failed>>

\* The fields copy assignment stores into *this.
CopyAssigned(src) == Obj(src.len, src.begin, CopyTermination(src.nt))

\* operator=(const str_view_template& src)
CopyAssign(d, s) ==
    /\ Ready /\ views[d].live /\ views[s].live /\ Quiet(d)
    /\ IF d = s
       THEN /\ last' = Did("assign_copy", d, s, views[s])
            /\ UNCHANGED <<views, heap, th, failed>>
       ELSE IF DeleteFault(views[d].nt) # "none"
       THEN Fail(DeleteFault(views[d].nt))
       ELSE /\ heap' = DeleteOwned(heap, views[d].nt)
            /\ views' = [views EXCEPT ![d] = CopyAssigned(views[s])]
            /\ last' = Did("assign_copy", d, s, views[s])
            /\ UNCHANGED <<th, failed>>

\* operator=(str_view_template&& src)
MoveAssign(d, s) ==
    /\ Ready /\ views[d].live /\ views[s].live /\ Quiet(d) /\ Quiet(s)
    /\ IF d = s
       THEN /\ last' = Did("assign_move", d, s, views[s])
            /\ UNCHANGED <<views, heap, th, failed>>
       ELSE IF DeleteFault(views[d].nt) # "none"
       THEN Fail(DeleteFault(views[d].nt))
       ELSE /\ heap' = DeleteOwned(heap, views[d].nt)
            /\ views' = [views EXCEPT ![s] = MovedFrom(views[s]), ![d] = MoveTaken(views[s])]
            /\ last' = Did("assign_move", d, s, views[s])
            /\ UNCHANGED <<th, failed>>

(* ---- c_str() and length(), one atomic access per step ---- *)
Finish(op, x, r) == [Idle EXCEPT !.pc = "done", !.op = op, !.self = x, !.ret = r]

\* (a c_str() without the empty() shortcut)
CStrFirstNoEmptyCheck(x) == [Idle EXCEPT !.pc = "cs_load", !.op = "c_str", !.self = x]

\* c_str() up to its first return: if(empty()) return &nullChar;
CStrFirst(x) ==
    IF IsEmpty(views[x])
    THEN Finish("c_str", x, NullCharAddr)
    ELSE [Idle EXCEPT !.pc = "cs_load", !.op = "c_str", !.self = x]

CStrBegin(t, x) ==
    /\ Ready /\ IdleThread(t) /\ views[x].live
    /\ IF UnknownFault(views[x], "assert_291") # "none"
       THEN Fail("assert_291")
       ELSE /\ th' = [th EXCEPT ![t] = CStrFirst(x)]
            /\ UNCHANGED <<views, heap, last, failed>>

\* c_str(): uintptr_t v = m_NullTerminatedPtr; the v == 1 and the v > 1 returns.
CStrLoad(t) ==
    LET x == th[t].self
        o == views[x]
    IN  /\ Ready /\ th[t].pc = "cs_load"
        /\ IF o.nt = 1
           THEN IF MemAt(o.begin + Resolved(o)) # 0
                THEN Fail("assert_306")
                ELSE /\ views' = [views EXCEPT ![x] = AfterLength(o)]
                     /\ th' = [th EXCEPT ![t] = Finish("c_str", x, o.begin)]
                     /\ UNCHANGED <<heap, last, failed>>
           ELSE IF o.nt = 0
           THEN /\ th' = [th EXCEPT ![t].pc = "cs_alloc"]
                /\ UNCHANGED <<views, heap, last, failed>>
           ELSE /\ th' = [th EXCEPT ![t] = Finish("c_str", x, o.nt)]
                /\ UNCHANGED <<views, heap, last, failed>>

\* (a c_str() that leaves the last unit of its copy unset)
TerminatedCopyUnset(o) == Units(o.begin, o.len) \o <<1>>

\* The array c_str() fills: the view's units and the terminator.
TerminatedCopy(o) == Units(o.begin, o.len) \o <<0>>

\* c_str(): new CharT[m_Length + 1], memcpy, terminator.
CStrAlloc(t) ==
    LET x == th[t].self
        o == views[x]
    IN  /\ Ready /\ th[t].pc = "cs_alloc"
        /\ IF o.len = SIZE_MAX
           THEN Fail("assert_312")
           ELSE \E a \in HeapAddrs :
                /\ ~heap[a].live
                /\ heap' = [heap EXCEPT ![a] = [data |-> TerminatedCopy(o), live |-> TRUE]]
                /\ th' = [th EXCEPT ![t].pc = "cs_cas", ![t].copy = a]
                /\ UNCHANGED <<views, last, failed>>

\* (a plain store in place of the compare-exchange)
CasStoredPlain(cur, copy) == copy

\* m_NullTerminatedPtr after compare_exchange_strong(expected = 0, copy).
CasStored(cur, copy) == IF cur = 0 THEN copy ELSE cur

\* (a c_str() whose losing thread returns the copy it has just deleted)
CasReturnedOwn(cur, copy) == copy

\* What c_str() returns after the exchange: its copy, or the winner's.
CasReturned(cur, copy) == IF cur = 0 THEN copy ELSE cur

\* The heap after the exchange: the loser deletes its copy.
CasHeap(h, cur, copy) == IF cur = 0 THEN h ELSE Freed(h, copy)

\* c_str(): the compare-exchange and both returns after it.
CStrCas(t) ==
    LET x == th[t].self
        cur == views[x].nt
        copy == th[t].copy
    IN  /\ Ready /\ th[t].pc = "cs_cas"
        /\ views' = [views EXCEPT ![x].nt = CasStored(cur, copy)]
        /\ heap' = CasHeap(heap, cur, copy)
        /\ th' = [th EXCEPT ![t] = [Finish("c_str", x, CasReturned(cur, copy)) EXCEPT !.copy = copy]]
        /\ UNCHANGED <<last, failed>>

\* length(): size_t len = m_Length; return on a known length.
LengthBegin(t, x) ==
    /\ Ready /\ IdleThread(t) /\ views[x].live
    /\ IF UnknownFault(views[x], "assert_274") # "none"
       THEN Fail("assert_274")
       ELSE /\ th' = [th EXCEPT ![t] =
                        IF views[x].len # SIZE_MAX
                        THEN [Finish("length", x, views[x].len) EXCEPT !.len = views[x].len]
                        ELSE [Idle EXCEPT !.pc = "ln_scan", !.op = "length", !.self = x,
                                          !.len = SIZE_MAX]]
            /\ UNCHANGED <<views, heap, last, failed>>

\* (a scan that counts the terminator)
LengthStoredOffByOne(o) == Strlen(o.begin) + 1

\* What length() stores into m_Length after the scan.
LengthStored(o) == Strlen(o.begin)

\* length(): len = tstrlen(m_Begin); m_Length = len; return len;
LengthStore(t) ==
    LET x == th[t].self
        n == LengthStored(views[x])
    IN  /\ Ready /\ th[t].pc = "ln_scan"
        /\ views' = [views EXCEPT ![x].len = n]
        /\ th' = [th EXCEPT ![t] = [Finish("length", x, n) EXCEPT !.len = SIZE_MAX]]
        /\ UNCHANGED <<heap, last, failed>>

\* The call returns to its caller.
Return(t) ==
    /\ Ready /\ th[t].pc = "done"
    /\ th' = [th EXCEPT ![t] = Idle]
    /\ UNCHANGED <<views, heap, last, failed>>

\* The thread that completed an operation as a whole goes on.
Resume ==
    /\ failed = "none" /\ last.op # "none"
    /\ last' = NoOp
    /\ UNCHANGED <<views, heap, th, failed>>

(* ---- the other read-only members, each one step of a calling thread ---- *)
\* empty(), as 1 (true) or 0 (false)
Empty(x) ==
    /\ Ready /\ views[x].live
    /\ IF UnknownFault(views[x], "assert_291") # "none"
       THEN Fail("assert_291")
       ELSE /\ last' = [Did("empty", 0, x, views[x]) EXCEPT
                            !.ret = IF IsEmpty(views[x]) THEN 1 ELSE 0]
            /\ UNCHANGED <<views, heap, th, failed>>

\* data()
Data(x) ==
    /\ Ready /\ views[x].live
    /\ last' = [Did("data", 0, x, views[x]) EXCEPT !.ret = views[x].begin]
    /\ UNCHANGED <<views, heap, th, failed>>

\* substr(offset, length): the assertion that fails, if one does.
SubstrFault(o, offset, length) ==
    IF o.len = SIZE_MAX /\ length = SIZE_MAX
    THEN (IF o.nt # 1 THEN "assert_347" ELSE "none")
    ELSE IF UnknownFault(o, "assert_274") # "none" THEN "assert_274"
    ELSE IF offset > Resolved(o) THEN "assert_352"
    ELSE LET n == Min(length, Resolved(o) - offset)
         IN  IF o.nt = 1 /\ n = Resolved(o) - offset
             THEN StillNTFault(o.begin + offset, n)
             ELSE "none"

\* (a substr that clamps the length to the whole length, not to the rest after offset)
SubstrOfWholeLength(o, offset, length) ==
    IF o.len = SIZE_MAX /\ length = SIZE_MAX
    THEN ViewSz(o.begin + offset)
    ELSE ViewStrLen(o.begin + offset, Min(length, Resolved(o)))

\* substr(offset, length): the view returned.
SubstrOf(o, offset, length) ==
    IF o.len = SIZE_MAX /\ length = SIZE_MAX
    THEN ViewSz(o.begin + offset)
    ELSE LET thisLen == Resolved(o)
             n == Min(length, thisLen - offset)
         IN  IF o.nt = 1 /\ n = thisLen - offset
             THEN ViewStillNT(o.begin + offset, n)
             ELSE ViewStrLen(o.begin + offset, n)

Substr(x, d, offset, length) ==
    /\ Ready /\ views[x].live /\ FreeSlot(d)
    /\ LazyInRange(views[x], offset, length)
    /\ \/ SubstrFault(views[x], offset, length) # "none"
          /\ Fail(SubstrFault(views[x], offset, length))
       \/ /\ SubstrFault(views[x], offset, length) \in {"none", "null_deref_169"}
          /\ views' = [views EXCEPT ![x] = SliceSource(views[x], length),
                                    ![d] = SubstrOf(views[x], offset, length)]
          /\ last' = [Did("substr", d, x, views[x]) EXCEPT !.off = offset, !.req = length]
          /\ UNCHANGED <<heap, th, failed>>

\* The caller's storage dst before copy_to: as long as the callers' array,
\* no unit of it written yet.
DstBuffer == [i \in 1 .. MemLen |-> Poison]

\* (a copy that appends a terminator)
MemcpyTerminated(dst, b, n) ==
    [i \in 1 .. Len(dst) |-> IF i <= n THEN MemAt(b + i - 1) ELSE IF i = n + 1 THEN 0 ELSE dst[i]]

\* dst after memcpy(dst, b, n * sizeof(CharT))
Memcpy(dst, b, n) ==
    [i \in 1 .. Len(dst) |-> IF i <= n THEN MemAt(b + i - 1) ELSE dst[i]]

\* copy_to(dst, offset, length): the assertion that fails, if one does.
CopyToFault(o, offset) ==
    IF UnknownFault(o, "assert_274") # "none" THEN "assert_274"
    ELSE IF offset > Resolved(o) THEN "assert_335"
    ELSE "none"

\* copy_to(dst, offset, length): the count returned, and dst after the call.
CopyTo(x, offset, length) ==
    LET o == views[x]
        n == Min(length, Resolved(o) - offset)
    IN  /\ Ready /\ o.live
        /\ IF CopyToFault(o, offset) # "none"
           THEN Fail(CopyToFault(o, offset))
           ELSE /\ views' = [views EXCEPT ![x] = AfterLength(o)]
                /\ last' = [Did("copy_to", 0, x, o) EXCEPT !.off = offset, !.req = length,
                                !.ret = n, !.out = Memcpy(DstBuffer, o.begin + offset, n)]
                /\ UNCHANGED <<heap, th, failed>>

\* (an operator== without the memcmp)
EqualViewsLengthOnly(a, b) == Resolved(a) = Resolved(b)

\* operator==: the lengths, then memcmp over the units.
EqualViews(a, b) ==
    /\ Resolved(a) = Resolved(b)
    /\ Resolved(a) > 0 => Units(a.begin, Resolved(a)) = Units(b.begin, Resolved(a))

Equals(x, y) ==
    /\ Ready /\ views[x].live /\ views[y].live
    /\ IF UnknownFault(views[x], "assert_274") # "none" \/ UnknownFault(views[y], "assert_274") # "none"
       THEN Fail("assert_274")
       ELSE /\ views' = [z \in Views |-> IF z \in {x, y} THEN AfterLength(views[z]) ELSE views[z]]
            /\ last' = [Did("equals", y, x, views[x]) EXCEPT
                            !.ret = IF EqualViews(views[x], views[y]) THEN 1 ELSE 0]
            /\ UNCHANGED <<heap, th, failed>>

\* One step of the program while it runs.
Step ==
    \/ \E d \in Views : CtorDefault(d)
    \/ \E d \in Views, sz \in SrcPtrs \cup {NULL} : CtorSz(d, sz)
    \/ \E d \in Views, str \in SrcPtrs, length \in ReqLengths : CtorStrLen(d, str, length)
    \/ \E d \in Views, str \in SrcPtrs, length \in 0 .. MaxReq : CtorStillNT(d, str, length)
    \/ \E d \in Views, s \in Strings, offset \in Offsets, length \in ReqLengths :
          CtorString(d, s, offset, length)
    \/ \E d, s \in Views, offset \in Offsets, length \in ReqLengths : CtorCopy(d, s, offset, length)
    \/ \E d, s \in Views : CtorMove(d, s)
    \/ \E d \in Views : Dtor(d)
    \/ \E d, s \in Views : CopyAssign(d, s)
    \/ \E d, s \in Views : MoveAssign(d, s)
    \/ \E t \in Threads, x \in Views : CStrBegin(t, x)
    \/ \E t \in Threads : CStrLoad(t)
    \/ \E t \in Threads : CStrAlloc(t)
    \/ \E t \in Threads : CStrCas(t)
    \/ \E t \in Threads, x \in Views : LengthBegin(t, x)
    \/ \E t \in Threads : LengthStore(t)
    \/ \E t \in Threads : Return(t)
    \/ \E x \in Views : Empty(x)
    \/ \E x \in Views : Data(x)
    \/ \E x, d \in Views, offset \in Offsets, length \in ReqLengths : Substr(x, d, offset, length)
    \/ \E x \in Views, offset \in Offsets, length \in ReqLengths : CopyTo(x, offset, length)
    \/ \E x, y \in Views : Equals(x, y)

Next ==
    \/ Ready /\ Step
    \/ Resume

Spec == Init /\ [][Next]_vars

(***************************************************************************)
(* Properties                                                              *)
(***************************************************************************)
\* Thread t has completed call op and not yet returned to its caller.
Done(t, op) == th[t].pc = "done" /\ th[t].op = op

\* n is the offset of the first terminator at or after address b.
FirstTerminator(b, n) == MemAt(b + n) = 0 /\ \A i \in 0 .. n - 1 : MemAt(b + i) # 0

\* The step destroys, assigns to or moves from object x.
Mutates(x) ==
    /\ last'.op \in {"dtor", "assign_copy", "assign_move", "ctor_move"}
    /\ x \in {last'.dst, last'.src}

\* C1: every c_str() call completed on a non-empty view that is not
\* SelfTerminated has returned the one array installed in the view's
\* m_NullTerminatedPtr, so all concurrent calls return the same pointer.
C1_SameInstalledPointer ==
    \A t \in Threads :
        Done(t, "c_str") /\ ~IsEmpty(views[th[t].self]) /\ views[th[t].self].nt # 1
        => /\ views[th[t].self].nt \in HeapAddrs
           /\ th[t].ret = views[th[t].self].nt

\* Two calls raced on one view: each allocated its own array, both returned the same one.
C1_Witness ==
    \E t, u \in Threads :
        /\ t # u /\ Done(t, "c_str") /\ Done(u, "c_str") /\ th[t].self = th[u].self
        /\ th[t].copy # 0 /\ th[u].copy # 0
        /\ th[t].ret = th[u].ret /\ th[t].ret = views[th[t].self].nt

\* The objects, and the calls between allocation and compare-exchange, that hold array a.
Holders(a) ==
    Cardinality({x \in Views : views[x].live /\ views[x].nt = a})
    + Cardinality({t \in Threads : th[t].pc = "cs_cas" /\ th[t].copy = a})

\* C2: no array is deleted twice, and an array is allocated exactly while one
\* live object (or one call about to install or delete it) holds it: none leaks,
\* none is deleted while installed, none is left once all objects are destroyed.
C2_FreedExactlyOnce ==
    /\ failed # "double_free"
    /\ \A a \in HeapAddrs : Holders(a) = IF heap[a].live THEN 1 ELSE 0
    /\ \A x \in Views : views[x].live /\ views[x].nt > 1 => views[x].nt \in HeapAddrs

\* The last object was destroyed owning an array, and nothing is allocated any more.
C2_Witness ==
    /\ last.op = "dtor" /\ last.pre.nt > 1
    /\ \A x \in Views : ~views[x].live
    /\ \A a \in HeapAddrs : ~heap[a].live

\* C3: the pointer p a completed c_str() returned has the view's units at
\* p[0 .. length()) and the terminator at p[length()], and c_str() never
\* fails its own assertions on the terminator and the known length.
C3_TerminatedRepresentation ==
    /\ failed \notin {"assert_306", "assert_312"}
    /\ \A t \in Threads :
          Done(t, "c_str")
          => LET o == views[th[t].self]
                 n == Resolved(o)
                 p == th[t].ret
             IN  /\ \A i \in 0 .. n - 1 : At(p, i) = MemAt(o.begin + i)
                 /\ At(p, n) = 0

\* c_str() returned an allocated copy of a two-unit view that is a slice, a
\* copy or a move target (the second object).
C3_Witness ==
    \E t \in Threads :
        /\ Done(t, "c_str") /\ th[t].self = 2
        /\ th[t].ret \in HeapAddrs /\ views[2].len = 2

\* C4: no two live objects hold the same array; a copy (constructor, slice or
\* assignment) from an object that owns an array is NotTerminated and leaves
\* the source its array; a move carries the array over and clears the source.
C4_ExclusiveOwnership ==
    /\ \A x, y \in Views :
          x # y /\ views[x].live /\ views[y].live /\ views[x].nt > 1
          => views[x].nt # views[y].nt
    /\ last.op \in {"ctor_copy", "assign_copy", "substr"} /\ last.dst # last.src /\ last.pre.nt > 1
       => views[last.dst].nt = 0 /\ views[last.src].nt = last.pre.nt
    /\ last.op \in {"ctor_move", "assign_move"} /\ last.dst # last.src /\ last.pre.nt > 1
       => views[last.dst].nt = last.pre.nt /\ views[last.src].nt = 0

\* An object that owns an array has just been copy-assigned to another object.
C4_Witness ==
    /\ last.op = "assign_copy" /\ last.dst # last.src /\ last.pre.nt > 1
    /\ views[last.src].nt = last.pre.nt

\* C5: after a move (constructor or assignment) between two objects the
\* source is empty (length 0, null begin, NotTerminated) and the destination
\* has the source's former m_Begin, m_Length and m_NullTerminatedPtr, the
\* array it owns still allocated.
C5_MoveTransfers ==
    last.op \in {"ctor_move", "assign_move"} /\ last.dst # last.src
    => /\ views[last.src] = Obj(0, NULL, 0)
       /\ views[last.dst] = last.pre
       /\ last.pre.nt > 1 => IsLive(last.pre.nt)

\* A move assignment has carried an owned array from one object to another.
C5_Witness ==
    /\ last.op = "assign_move" /\ last.dst # last.src
    /\ last.pre.nt > 1 /\ views[last.dst].nt = last.pre.nt

\* C6: a step that does not destroy, assign to or move from an object changes
\* its m_NullTerminatedPtr only from 0 to an array (1 stays 1, an array stays
\* that array), and a c_str() that loads an installed array returns it
\* without allocating.
C6_TerminationOnce ==
    [][ /\ \A x \in Views :
             views[x].live /\ views'[x].live /\ ~Mutates(x) /\ views'[x].nt # views[x].nt
             => views[x].nt = 0 /\ views'[x].nt \in HeapAddrs
        /\ \A t \in Threads :
             th[t].pc = "cs_load" /\ th'[t].pc # "cs_load" /\ views[th[t].self].nt > 1
             => /\ th'[t].pc = "done" /\ th'[t].ret = views[th[t].self].nt
                /\ th'[t].copy = 0 /\ heap' = heap
      ]_vars

\* A c_str() call found the array another call had installed and returned it
\* without allocating.
C6_Witness ==
    \E t, u \in Threads :
        /\ Done(t, "c_str") /\ th[t].copy = 0 /\ th[t].ret \in HeapAddrs
        /\ th[t].ret = views[th[t].self].nt
        /\ Done(u, "c_str") /\ th[u].self = th[t].self /\ th[u].copy = th[t].ret

\* C7: a length() call that loaded the Unknown sentinel returns the offset of
\* the first terminator and leaves it in m_Length; a step that does not
\* destroy, assign to or move from an object changes its m_Length only from
\* Unknown to that offset.
C7_LengthOnce ==
    [][ /\ \A t \in Threads :
             Done(t, "length")' /\ th'[t].len = SIZE_MAX
             => /\ FirstTerminator(views'[th'[t].self].begin, th'[t].ret)
                /\ views'[th'[t].self].len = th'[t].ret
        /\ \A x \in Views :
             views[x].live /\ views'[x].live /\ ~Mutates(x) /\ views'[x].len # views[x].len
             => /\ views[x].len = SIZE_MAX
                /\ FirstTerminator(views[x].begin, views'[x].len)
      ]_vars

\* Two length() calls both loaded Unknown on one view and both returned 2.
C7_Witness ==
    \E t, u \in Threads :
        /\ t # u /\ Done(t, "length") /\ Done(u, "length") /\ th[t].self = th[u].self
        /\ th[t].len = SIZE_MAX /\ th[u].len = SIZE_MAX
        /\ th[t].ret = 2 /\ th[u].ret = 2 /\ views[th[t].self].len = 2

\* C8: in every live object an Unknown m_Length implies SelfTerminated.
C8_UnknownImpliesSelfTerminated ==
    \A x \in Views : views[x].live /\ views[x].len = SIZE_MAX => views[x].nt = 1

\* C9: empty() on a SelfTerminated view of Unknown length returns true exactly
\* when the first unit is the terminator, and leaves the object as it was, its
\* m_Length still Unknown.
C9_EmptyPeeks ==
    last.op = "empty" /\ last.pre.len = SIZE_MAX /\ last.pre.nt = 1
    => /\ last.ret = 1 <=> MemAt(last.pre.begin) = 0
       /\ views[last.src] = last.pre
       /\ views[last.src].len = SIZE_MAX

\* empty() returned false on a view of Unknown length.
C9_Witness ==
    /\ last.op = "empty" /\ last.pre.len = SIZE_MAX /\ last.pre.nt = 1
    /\ last.ret = 0 /\ views[last.src].len = SIZE_MAX

\* C10: a c_str() step on an empty view returns the static terminator's
\* address, on a non-empty SelfTerminated view m_Begin, in both cases without
\* allocating and with m_NullTerminatedPtr unchanged; a step that allocates is
\* on a non-empty view that is not SelfTerminated.
C10_NoAllocation ==
    [][ \A t \in Threads :
            th'[t] # th[t] /\ th'[t].op = "c_str"
            => LET x == th'[t].self
                   o == views[x]
               IN  /\ IsEmpty(o)
                      => /\ Done(t, "c_str")' /\ th'[t].ret = NullCharAddr /\ th'[t].copy = 0
                         /\ heap' = heap /\ views'[x].nt = o.nt
                   /\ ~IsEmpty(o) /\ o.nt = 1
                      => /\ heap' = heap /\ views'[x].nt = 1 /\ th'[t].copy = 0
                         /\ th[t].pc = "cs_load" => Done(t, "c_str")' /\ th'[t].ret = o.begin
                   /\ heap' # heap => ~IsEmpty(o) /\ o.nt # 1 /\ o.len # 0
      ]_vars

\* c_str() has returned the same static address for two different empty objects.
C10_Witness ==
    \E t, u \in Threads :
        /\ Done(t, "c_str") /\ Done(u, "c_str") /\ th[t].self # th[u].self
        /\ th[t].ret = NullCharAddr /\ th[u].ret = NullCharAddr

\* The last step was a slice: the slicing constructor or substr, from object
\* last.src (fields last.pre before the call) into the new object last.dst.
Sliced == last.op \in {"ctor_copy", "substr"}

\* C11: a slice that yields a view was called with offset <= the source's
\* resolved length, whichever path it took, and the view's begin does not lie
\* past the source's terminator.
C11_OffsetChecked ==
    Sliced
    => /\ last.off <= Resolved(last.pre)
       /\ views[last.dst].begin # NULL
          => views[last.dst].begin <= last.pre.begin + Resolved(last.pre)

\* C12: a slice of a view of Unknown length with the unbounded length SIZE_MAX
\* yields a view of Unknown length, SelfTerminated, with begin = the source's
\* begin + offset, and leaves the source as it was, its m_Length still
\* Unknown; so does a slice of such a slice.
C12_LazySlice ==
    Sliced /\ last.pre.len = SIZE_MAX /\ last.req = SIZE_MAX
    => /\ views[last.dst] = Obj(SIZE_MAX, last.pre.begin + last.off, 1)
       /\ views[last.src] = last.pre
       /\ views[last.src].len = SIZE_MAX

\* A slice at offset 1 of a view that is itself a lazy slice at offset 1 of
\* "ab": both still of Unknown length.
C12_Witness ==
    /\ Sliced /\ last.req = SIZE_MAX /\ last.off = 1
    /\ last.pre = Obj(SIZE_MAX, BufBase + 1, 1)
    /\ views[last.src].len = SIZE_MAX
    /\ views[last.dst] = Obj(SIZE_MAX, BufBase + 2, 1)

\* C13: a slice on the path that resolves the source's length has offset <=
\* that length srcLen, the length n = min(requested length, srcLen - offset)
\* and the source's units [offset, offset + n); it is SelfTerminated only if
\* the source is and offset + n = srcLen, and NotTerminated otherwise, so it
\* never takes over the array of a source that owns one.
C13_SliceResult ==
    Sliced /\ ~(last.pre.len = SIZE_MAX /\ last.req = SIZE_MAX)
    => LET srcLen == Resolved(last.pre)
           n == Min(last.req, srcLen - last.off)
           r == views[last.dst]
       IN  /\ last.off <= srcLen
           /\ r.len = n
           /\ n > 0 => Units(r.begin, n)
                         = SubSeq(Units(last.pre.begin, srcLen), last.off + 1, last.off + n)
           /\ r.nt \in {0, 1}
           /\ r.nt = 1 => last.pre.nt = 1 /\ last.off + n = srcLen
           /\ last.pre.nt > 1 => r.nt = 0

\* substr(1) of a view "ab" that owns an array: the view "b", NotTerminated.
C13_Witness ==
    /\ last.op = "substr" /\ last.pre.nt > 1 /\ last.off = 1 /\ last.req = SIZE_MAX
    /\ views[last.dst] = Obj(1, BufBase + 1, 0)
    /\ views[last.src].nt = last.pre.nt

\* C14: the constructor from a pointer, an explicit length and the caller's
\* word that a terminator follows does not abort, and the view it builds is
\* SelfTerminated, for every length, 0 included.
C14_StillTerminated ==
    /\ failed # "null_deref_169"
    /\ last.op = "ctor_still" => views[last.dst].nt = 1

\* (the same for the lengths other than 0 only)
C14_NonZeroStillTerminated ==
    last.op = "ctor_still" /\ views[last.dst].len # 0
    => /\ views[last.dst].nt = 1
       /\ MemAt(views[last.dst].begin + views[last.dst].len) = 0

\* The code units of a view: [begin(), begin() + length()).
Content(o) == IF Resolved(o) = 0 THEN <<>> ELSE Units(o.begin, Resolved(o))

\* substr(offset, length) on o returns (it fails no assertion; the undefined
\* read of the zero-length asserted-terminator constructor is survived).
SubstrReturns(o, offset, length) ==
    SubstrFault(o, offset, length) \in {"none", "null_deref_169"}

C16_EqualityByContent ==
    last.op = "equals"
    => LET a == last.pre
           x == views[last.src]
           y == views[last.dst]
       IN  /\ last.ret \in {0, 1}
           /\ last.ret = 1 <=> (Resolved(x) = Resolved(y) /\ Content(x) = Content(y))
           /\ Content(x) = Content(a)
           /\ last.src = last.dst => last.ret = 1
           /\ last.ret = 1 <=> EqualViews(y, x)
           /\ Resolved(x) = 0 /\ Resolved(y) = 0 => last.ret = 1

\* operator== returned true for the view of an empty string, its length
\* Unknown before the call, and a view with a null begin.
C16_Witness ==
    /\ last.op = "equals" /\ last.ret = 1
    /\ last.pre = Obj(SIZE_MAX, BufBase + 2, 1)
    /\ views[last.dst].begin = NULL

\* operator== returned true for two views "ab" at different addresses: one
\* owns a terminated copy, the other had Unknown length before the call.
C16_WitnessContent ==
    /\ last.op = "equals" /\ last.ret = 1 /\ last.src # last.dst
    /\ last.pre.len = SIZE_MAX /\ Content(views[last.src]) = <<1, 2>>
    /\ views[last.dst].nt > 1

\* C17: a copy_to(dst, offset, length) that returned had offset <= length(),
\* returned n = min(length, length() - offset), left the view's units
\* [offset, offset + n) in dst[0 .. n) and every unit of dst from dst[n] on
\* as it was; and on every view whose length can be resolved, copy_to with
\* offset = length() fails no assertion.
C17_CopyTo ==
    /\ last.op = "copy_to"
       => LET thisLen == Resolved(last.pre)
              n == Min(last.req, thisLen - last.off)
          IN  /\ last.off <= thisLen
              /\ last.ret = n
              /\ \A i \in 1 .. n : last.out[i] = Content(last.pre)[last.off + i]
              /\ \A i \in n + 1 .. Len(last.out) : last.out[i] = DstBuffer[i]
              /\ Content(views[last.src]) = Content(last.pre)
    /\ \A x \in Views :
          views[x].live /\ UnknownFault(views[x], "assert_274") = "none"
          => CopyToFault(views[x], Resolved(views[x])) = "none"

\* copy_to at offset 1 of "ab" copied the one unit 'b'.
C17_Witness ==
    /\ last.op = "copy_to" /\ last.off = 1 /\ last.req = SIZE_MAX /\ last.ret = 1
    /\ last.out[1] = 2 /\ last.out[2] = Poison

\* copy_to at offset = length() = 2 returned 0 and wrote nothing.
C17_WitnessEnd ==
    /\ last.op = "copy_to" /\ last.off = 2 /\ Resolved(last.pre) = 2 /\ last.ret = 0
    /\ last.out = DstBuffer

\* C18: on every view whose length can be resolved, substr(offset, length)
\* with offset <= length() fails no assertion and reads through no null
\* pointer.
C18_SubstrSafe ==
    \A x \in Views, offset \in Offsets, length \in ReqLengths :
        /\ views[x].live /\ UnknownFault(views[x], "assert_274") = "none"
        /\ offset <= Resolved(views[x])
        => SubstrFault(views[x], offset, length) = "none"

\* (substr with offset <= length() is safe except at offset = length() of a
\* SelfTerminated view on the path that resolves the length, where it reads
\* through the null m_Begin of the zero-length view it constructs)
C18_SubstrSafeButAtEnd ==
    \A x \in Views, offset \in Offsets, length \in ReqLengths :
        /\ views[x].live /\ UnknownFault(views[x], "assert_274") = "none"
        /\ offset <= Resolved(views[x])
        /\ SubstrFault(views[x], offset, length) # "none"
        => /\ SubstrFault(views[x], offset, length) = "null_deref_169"
           /\ views[x].nt = 1 /\ offset = Resolved(views[x])
           /\ ~(views[x].len = SIZE_MAX /\ length = SIZE_MAX)

\* C19: empty() is true exactly when length() is 0: on every live view whose
\* length can be resolved, whatever its cache and termination state; for every
\* empty() that returned, against the length the view resolves to; for every
\* length() that returned, against empty() on the view it left; and for an
\* empty() called while a completed length() on the same view has not yet
\* been returned from, between the two results.
C19_EmptyIffLengthZero ==
    /\ \A x \in Views :
          views[x].live /\ UnknownFault(views[x], "assert_291") = "none"
          => (IsEmpty(views[x]) <=> Resolved(views[x]) = 0)
    /\ last.op = "empty"
       => /\ last.ret = 1 <=> Resolved(last.pre) = 0
          /\ last.ret = 1 <=> IsEmpty(AfterLength(last.pre))
    /\ \A t \in Threads :
          Done(t, "length")
          => /\ th[t].ret = 0 <=> IsEmpty(views[th[t].self])
             /\ last.op = "empty" /\ last.src = th[t].self
                => (last.ret = 1 <=> th[t].ret = 0)

\* length() scanned the view of an empty string and returned 0, and empty()
\* on that view then returned true.
C19_Witness ==
    \E t \in Threads :
        /\ Done(t, "length") /\ th[t].len = SIZE_MAX /\ th[t].ret = 0
        /\ last.op = "empty" /\ last.src = th[t].self /\ last.ret = 1
        /\ views[last.src].begin # NULL

\* empty() returned false on a view whose length is still Unknown while a
\* length() call on it is about to scan.
C19_WitnessEmptyFirst ==
    \E t \in Threads :
        /\ th[t].pc = "ln_scan" /\ last.op = "empty" /\ last.src = th[t].self
        /\ last.ret = 0 /\ views[last.src].len = SIZE_MAX /\ Resolved(views[last.src]) = 2

====
